---------------------------- MODULE Spec2Model ----------------------------
(***************************************************************************)
(* Model of rapidfuzz/distance/Jaro_impl.hpp: the bit-parallel Jaro        *)
(* similarity (bounds, filters, word- and block-path flagging,             *)
(* transposition counting, scoring, and the batched lane scorer).          *)
(*                                                                         *)
(* Representation.                                                         *)
(*  - A sequence is a TLA+ sequence of symbols; position i of the code     *)
(*    (0-based) is element i+1.                                            *)
(*  - A machine word (uint64_t, or a SIMD lane) is the set of its set bit  *)
(*    positions, a subset of 0..w-1 for a word of w bits.  Shifts drop the *)
(*    bits that leave the word, as the fixed-width integer does.           *)
(*  - A double is an exact rational <<n, d>> in lowest terms with d > 0.   *)
(*    The code's sums and quotients are monotone in floating point, so the *)
(*    order of two scores is the order of the rationals.                   *)
(*  - The word width is a parameter w of every bit operation.  The source  *)
(*    fixes it at 64 (WordBits); the specifications run the code both at   *)
(*    that width and at the narrow width ScaledWordBits, where sequences   *)
(*    of a few symbols already span several words and take the block path. *)
(***************************************************************************)
EXTENDS Integers, Sequences, FiniteSets, TLC

\* ------------------------------------------------------------------ bounds

\* Longest input sequence of a scalar call.
MaxLen == 4
\* Longest input sequence of a stepped flagger run.
MaxFlagLen == 6
\* The narrow word width (the source's is WordBits).
ScaledWordBits == 2
\* Cutoffs are drawn from the grid k / CutoffDen.
CutoffDen == 2

\* Longest pattern, longest text and most patterns of a batched call.
MaxPatLen == 2
MaxTextLen == 3
MaxPatterns == 3

\* The lanes of a vector: native_simd<uint64_t>::size() of the 128-bit build.
VecWidth == 2

\* The width of uint64_t, the word of the flag sets and occurrence masks.
WordBits == 64

\* The symbols of the inputs: 'A' and 'B'.
Alphabet == {65, 66}

Strings(n) == UNION {[1..k -> Alphabet] : k \in 0..n}

WordWidths == {ScaledWordBits, WordBits}

\* ---------------------------------------------------------------- doubles

RECURSIVE Gcd(_, _)
Gcd(a, b) == IF b = 0 THEN a ELSE Gcd(b, a % b)

Abs(x) == IF x < 0 THEN -x ELSE x

\* The rational n / d (d > 0) in lowest terms.
Rat(n, d) == LET g == Gcd(Abs(n), d) IN <<n \div g, d \div g>>

RatAdd(a, b) == Rat(a[1] * b[2] + b[1] * a[2], a[2] * b[2])
RatDiv(a, b) == Rat(a[1] * b[2], a[2] * b[1])
RatGe(a, b) == a[1] * b[2] >= b[1] * a[2]
RatGt(a, b) == a[1] * b[2] > b[1] * a[2]
Dbl(n) == <<n, 1>>

Zero == Dbl(0)
One == Dbl(1)

Cutoffs == {Rat(k, CutoffDen) : k \in 0..(CutoffDen + 1)} \cup {Rat(9, 10)}

Min2(a, b) == IF a < b THEN a ELSE b
SetMin(S) == CHOOSE x \in S : \A y \in S : x <= y

\* --------------------------------------------------- sequences and words

At(S, i) == S[i + 1]
Take(S, n) == SubSeq(S, 1, n)
Drop(S, n) == SubSeq(S, n + 1, Len(S))

AllOnes(w) == 0..(w - 1)
Blsi(x) == IF x = {} THEN {} ELSE {SetMin(x)}
Blsr(x) == x \ Blsi(x)
Popcount(x) == Cardinality(x)
CountrZero(x) == SetMin(x)
Shl1(w, x) == {i + 1 : i \in x} \cap AllOnes(w)
ShlOr1(w, x) == Shl1(w, x) \cup {0}
BitMaskLsb(w, n) == IF n < w THEN 0..(n - 1) ELSE AllOnes(w)
CeilDiv(a, b) == (a + b - 1) \div b

\* The occurrence index built from sequence S: the positions of word `word`
\* (of w bits) at which symbol ch occurs.
PMGet(w, S, word, ch) ==
    {i \in 0..(Min2(w, Len(S) - w * word) - 1) : At(S, w * word + i) = ch}

RECURSIVE CommonPrefixLen(_, _)
CommonPrefixLen(P, T) ==
    IF P # <<>> /\ T # <<>> /\ Head(P) = Head(T)
    THEN 1 + CommonPrefixLen(Tail(P), Tail(T))
    ELSE 0

\* ---------------------------------------------------- score and filters

jaro_calculate_similarity(P_len, T_len, CommonChars, Transpositions) ==
    LET Tr == Transpositions \div 2
        Sim == RatAdd(RatAdd(Rat(CommonChars, P_len), Rat(CommonChars, T_len)),
                      Rat(CommonChars - Tr, CommonChars))
    IN RatDiv(Sim, Dbl(3))

jaro_length_filter(P_len, T_len, score_cutoff) ==
    IF T_len = 0 \/ P_len = 0 THEN FALSE
    ELSE LET min_len == Min2(P_len, T_len)
             Sim == RatAdd(RatAdd(Rat(min_len, P_len), Rat(min_len, T_len)), One)
         IN RatGe(RatDiv(Sim, Dbl(3)), score_cutoff)

\* Faulty variant of jaro_common_char_filter: the bound must exceed the cutoff.
jaro_common_char_filter_strict(P_len, T_len, CommonChars, score_cutoff) ==
    IF CommonChars = 0 THEN FALSE
    ELSE LET Sim == RatAdd(RatAdd(Rat(CommonChars, P_len), Rat(CommonChars, T_len)), One)
         IN RatGt(RatDiv(Sim, Dbl(3)), score_cutoff)

jaro_common_char_filter(P_len, T_len, CommonChars, score_cutoff) ==
    IF CommonChars = 0 THEN FALSE
    ELSE LET Sim == RatAdd(RatAdd(Rat(CommonChars, P_len), Rat(CommonChars, T_len)), One)
         IN RatGe(RatDiv(Sim, Dbl(3)), score_cutoff)

\* ------------------------------------------------------------- word path

count_common_chars_word(flagged) == Popcount(flagged.P_flag)

\* Faulty variant of WordInit: the first mask is one bit short.
WordInit_short(w, Bound) ==
    [P_flag |-> {}, T_flag |-> {}, BoundMask |-> BitMaskLsb(w, Bound)]

\* The state of flag_similar_characters_word before its first step.
WordInit(w, Bound) ==
    [P_flag |-> {}, T_flag |-> {}, BoundMask |-> BitMaskLsb(w, Bound + 1)]

\* Faulty variant of WordStep: the mask grows for one step more.
WordStep_late(w, PM, T, Bound, st, j) ==
    LET PM_j == (PMGet(w, PM, 0, At(T, j)) \cap st.BoundMask) \ st.P_flag
    IN [P_flag |-> st.P_flag \cup Blsi(PM_j),
        T_flag |-> st.T_flag \cup (IF PM_j # {} THEN {j} \cap AllOnes(w) ELSE {}),
        BoundMask |-> IF j <= Min2(Bound, Len(T))
                      THEN ShlOr1(w, st.BoundMask)
                      ELSE Shl1(w, st.BoundMask)]

\* One iteration (text position j) of either loop of
\* flag_similar_characters_word; PM is the sequence the index was built from.
WordStep(w, PM, T, Bound, st, j) ==
    LET PM_j == (PMGet(w, PM, 0, At(T, j)) \cap st.BoundMask) \ st.P_flag
    IN [P_flag |-> st.P_flag \cup Blsi(PM_j),
        T_flag |-> st.T_flag \cup (IF PM_j # {} THEN {j} \cap AllOnes(w) ELSE {}),
        BoundMask |-> IF j < Min2(Bound, Len(T))
                      THEN ShlOr1(w, st.BoundMask)
                      ELSE Shl1(w, st.BoundMask)]

flag_similar_characters_word(w, PM, T, Bound) ==
    LET run[j \in 0..Len(T)] ==
            IF j = 0 THEN WordInit(w, Bound)
            ELSE WordStep(w, PM, T, Bound, run[j - 1], j - 1)
        st == run[Len(T)]
    IN [P_flag |-> st.P_flag, T_flag |-> st.T_flag]

count_transpositions_word(w, PM, T, flagged) ==
    LET loop[n \in 0..Cardinality(flagged.T_flag)] ==
            IF n = 0
            THEN [P_flag |-> flagged.P_flag, T_flag |-> flagged.T_flag, Tr |-> 0]
            ELSE LET s == loop[n - 1]
                     PatternFlagMask == Blsi(s.P_flag)
                     miss == PMGet(w, PM, 0, At(T, CountrZero(s.T_flag)))
                                 \cap PatternFlagMask = {}
                 IN [P_flag |-> s.P_flag \ PatternFlagMask,
                     T_flag |-> Blsr(s.T_flag),
                     Tr |-> s.Tr + (IF miss THEN 1 ELSE 0)]
    IN loop[Cardinality(flagged.T_flag)].Tr

\* ------------------------------------------------------------ block path

\* count_common_chars(const FlaggedCharsMultiword&): sums the shorter array.
RECURSIVE SumPopcount(_, _)
SumPopcount(flags, n) ==
    IF n = 0 THEN 0 ELSE Popcount(flags[n - 1]) + SumPopcount(flags, n - 1)

FlagSize(flags) == Cardinality(DOMAIN flags)

count_common_chars_block(flagged) ==
    IF FlagSize(flagged.P_flag) < FlagSize(flagged.T_flag)
    THEN SumPopcount(flagged.P_flag, FlagSize(flagged.P_flag))
    ELSE SumPopcount(flagged.T_flag, FlagSize(flagged.T_flag))

\* Faulty variant of FlagChar: the text bit is set whether or not a match was found.
FlagChar_always(flagged, wd, PM_j, j_word, j_pos) ==
    [P_flag |-> [flagged.P_flag EXCEPT ![wd] = @ \cup Blsi(PM_j)],
     T_flag |-> [flagged.T_flag EXCEPT ![j_word] = @ \cup {j_pos}]]

\* The two assignments that end every branch of flag_similar_characters_step:
\* the lowest bit of PM_j joins word wd of P_flag, and bit j_pos joins word
\* j_word of T_flag when PM_j is not zero.
FlagChar(flagged, wd, PM_j, j_word, j_pos) ==
    [P_flag |-> [flagged.P_flag EXCEPT ![wd] = @ \cup Blsi(PM_j)],
     T_flag |-> [flagged.T_flag EXCEPT ![j_word] =
                     @ \cup (IF PM_j # {} THEN {j_pos} ELSE {})]]

\* flag_similar_characters_step; PM is the sequence the block index was built
\* from, BoundMask a SearchBoundMask.
flag_similar_characters_step(w, PM, T_j, flagged, j, BoundMask) ==
    LET j_word == j \div w
        j_pos == j % w
        word0 == BoundMask.empty_words
        last_word == word0 + BoundMask.words
        Free(wd) == PMGet(w, PM, wd, T_j) \ flagged.P_flag[wd]
        Flag(wd, PM_j) == FlagChar(flagged, wd, PM_j, j_word, j_pos)
        \* the loop unrolled in groups of four words
        Unrolled[wd \in Nat] ==
            IF T_j >= 0 /\ T_j < 256 /\ wd + 3 < last_word - 1
            THEN LET PM_0 == Free(wd)
                     PM_1 == Free(wd + 1)
                     PM_2 == Free(wd + 2)
                     PM_3 == Free(wd + 3)
                 IN IF PM_0 # {} THEN <<TRUE, wd>>
                    ELSE IF PM_1 # {} THEN <<TRUE, wd + 1>>
                    ELSE IF PM_2 # {} THEN <<TRUE, wd + 2>>
                    ELSE IF PM_3 # {} THEN <<TRUE, wd + 3>>
                    ELSE Unrolled[wd + 4]
            ELSE <<FALSE, wd>>
        \* the plain loop over the remaining interior words
        Plain[wd \in Nat] ==
            IF wd < last_word - 1
            THEN IF Free(wd) # {} THEN <<TRUE, wd>> ELSE Plain[wd + 1]
            ELSE <<FALSE, wd>>
    IN IF BoundMask.words = 1
       THEN Flag(word0, (Free(word0) \cap BoundMask.last_mask) \cap BoundMask.first_mask)
       ELSE IF BoundMask.first_mask # {} /\ Free(word0) \cap BoundMask.first_mask # {}
       THEN Flag(word0, Free(word0) \cap BoundMask.first_mask)
       ELSE LET word1 == IF BoundMask.first_mask # {} THEN word0 + 1 ELSE word0
                u == Unrolled[word1]
                p == IF u[1] THEN u ELSE Plain[u[2]]
            IN IF p[1] THEN Flag(p[2], Free(p[2]))
               ELSE IF BoundMask.last_mask # {}
               THEN Flag(p[2], Free(p[2]) \cap BoundMask.last_mask)
               ELSE flagged

\* The flag arrays and SearchBoundMask of flag_similar_characters_block before
\* its first step.
BlockInit(w, P, T, Bound) ==
    LET start_range == Min2(Bound + 1, Len(P))
    IN [flagged |-> [P_flag |-> [k \in 0..(CeilDiv(Len(P), w) - 1) |-> {}],
                     T_flag |-> [k \in 0..(CeilDiv(Len(T), w) - 1) |-> {}]],
        BoundMask |-> [words |-> 1 + start_range \div w,
                       empty_words |-> 0,
                       last_mask |-> BitMaskLsb(w, start_range % w),
                       first_mask |-> AllOnes(w)]]

\* Faulty variant of BoundMaskAdvance: the leading edge starts moving one step late.
BoundMaskAdvance_late(w, P, Bound, BoundMask, j) ==
    LET grown == IF j + Bound + 1 < Len(P)
                 THEN LET lm == ShlOr1(w, BoundMask.last_mask)
                      IN IF j + Bound + 2 < Len(P) /\ lm = AllOnes(w)
                         THEN [BoundMask EXCEPT !.last_mask = {}, !.words = @ + 1]
                         ELSE [BoundMask EXCEPT !.last_mask = lm]
                 ELSE BoundMask
    IN IF j > Bound
       THEN LET fm == Shl1(w, grown.first_mask)
            IN IF fm = {}
               THEN [grown EXCEPT !.first_mask = AllOnes(w),
                                  !.words = @ - 1,
                                  !.empty_words = @ + 1]
               ELSE [grown EXCEPT !.first_mask = fm]
       ELSE grown

\* The update of the SearchBoundMask after the step of text position j.
BoundMaskAdvance(w, P, Bound, BoundMask, j) ==
    LET grown == IF j + Bound + 1 < Len(P)
                 THEN LET lm == ShlOr1(w, BoundMask.last_mask)
                      IN IF j + Bound + 2 < Len(P) /\ lm = AllOnes(w)
                         THEN [BoundMask EXCEPT !.last_mask = {}, !.words = @ + 1]
                         ELSE [BoundMask EXCEPT !.last_mask = lm]
                 ELSE BoundMask
    IN IF j >= Bound
       THEN LET fm == Shl1(w, grown.first_mask)
            IN IF fm = {}
               THEN [grown EXCEPT !.first_mask = AllOnes(w),
                                  !.words = @ - 1,
                                  !.empty_words = @ + 1]
               ELSE [grown EXCEPT !.first_mask = fm]
       ELSE grown

\* One iteration (text position j) of the loop of flag_similar_characters_block.
BlockStep(w, PM, P, T, Bound, st, j) ==
    [flagged |-> flag_similar_characters_step(w, PM, At(T, j), st.flagged, j, st.BoundMask),
     BoundMask |-> BoundMaskAdvance(w, P, Bound, st.BoundMask, j)]

flag_similar_characters_block(w, PM, P, T, Bound) ==
    LET run[j \in 0..Len(T)] ==
            IF j = 0 THEN BlockInit(w, P, T, Bound)
            ELSE BlockStep(w, PM, P, T, Bound, run[j - 1], j - 1)
    IN run[Len(T)].flagged

\* Faulty variant of count_transpositions_block: the text cursor T_first stays at the
\* first word.
count_transpositions_block_no_advance(w, PM, T, flagged, FlaggedChars) ==
    LET NextT[tw \in Nat] == IF flagged.T_flag[tw] # {} THEN tw ELSE NextT[tw + 1]
        NextP[pw \in Nat] == IF flagged.P_flag[pw] # {} THEN pw ELSE NextP[pw + 1]
        loop[n \in 0..FlaggedChars] ==
            IF n = 0
            THEN [TextWord |-> 0, PatternWord |-> 0,
                  T_flag |-> flagged.T_flag[0], P_flag |-> flagged.P_flag[0], Tr |-> 0]
            ELSE LET s == loop[n - 1]
                     tw == IF s.T_flag # {} THEN s.TextWord ELSE NextT[s.TextWord + 1]
                     tf == IF s.T_flag # {} THEN s.T_flag ELSE flagged.T_flag[tw]
                     pw == IF s.P_flag # {} THEN s.PatternWord ELSE NextP[s.PatternWord + 1]
                     pf == IF s.P_flag # {} THEN s.P_flag ELSE flagged.P_flag[pw]
                     PatternFlagMask == Blsi(pf)
                     miss == PMGet(w, PM, pw, At(T, CountrZero(tf)))
                                 \cap PatternFlagMask = {}
                 IN [TextWord |-> tw, PatternWord |-> pw,
                     T_flag |-> Blsr(tf), P_flag |-> pf \ PatternFlagMask,
                     Tr |-> s.Tr + (IF miss THEN 1 ELSE 0)]
    IN loop[FlaggedChars].Tr

\* count_transpositions_block: one pass of the inner `while (T_flag)` body per
\* flagged character, the word cursors advanced past empty words first (the
\* loop ends with FlaggedChars at 0 as long as FlaggedChars is the number of
\* bits of T_flag).
count_transpositions_block(w, PM, T, flagged, FlaggedChars) ==
    LET NextT[tw \in Nat] == IF flagged.T_flag[tw] # {} THEN tw ELSE NextT[tw + 1]
        NextP[pw \in Nat] == IF flagged.P_flag[pw] # {} THEN pw ELSE NextP[pw + 1]
        loop[n \in 0..FlaggedChars] ==
            IF n = 0
            THEN [TextWord |-> 0, PatternWord |-> 0,
                  T_flag |-> flagged.T_flag[0], P_flag |-> flagged.P_flag[0], Tr |-> 0]
            ELSE LET s == loop[n - 1]
                     tw == IF s.T_flag # {} THEN s.TextWord ELSE NextT[s.TextWord + 1]
                     tf == IF s.T_flag # {} THEN s.T_flag ELSE flagged.T_flag[tw]
                     pw == IF s.P_flag # {} THEN s.PatternWord ELSE NextP[s.PatternWord + 1]
                     pf == IF s.P_flag # {} THEN s.P_flag ELSE flagged.P_flag[pw]
                     PatternFlagMask == Blsi(pf)
                     miss == PMGet(w, PM, pw, At(T, w * tw + CountrZero(tf)))
                                 \cap PatternFlagMask = {}
                 IN [TextWord |-> tw, PatternWord |-> pw,
                     T_flag |-> Blsr(tf), P_flag |-> pf \ PatternFlagMask,
                     Tr |-> s.Tr + (IF miss THEN 1 ELSE 0)]
    IN loop[FlaggedChars].Tr

\* --------------------------------------------------------- bounds, scores

\* jaro_bounds(int64_t P_len, int64_t T_len)
jaro_bounds_len(P_len, T_len) ==
    IF T_len > P_len THEN T_len \div 2 - 1 ELSE P_len \div 2 - 1

\* Faulty variant of jaro_bounds: the bound of a longer text is not decremented.
jaro_bounds_asymmetric(P, T) ==
    LET P_len == Len(P)
        T_len == Len(T)
    IN IF T_len > P_len
       THEN LET Bound == T_len \div 2
            IN [Bound |-> Bound, P |-> P,
                T |-> IF T_len > P_len + Bound THEN Take(T, P_len + Bound) ELSE T]
       ELSE LET Bound == P_len \div 2 - 1
            IN [Bound |-> Bound, T |-> T,
                P |-> IF P_len > T_len + Bound THEN Take(P, T_len + Bound) ELSE P]

\* Faulty variant of jaro_bounds: the trimming forgets the window.
jaro_bounds_overtrim(P, T) ==
    LET P_len == Len(P)
        T_len == Len(T)
    IN IF T_len > P_len
       THEN LET Bound == T_len \div 2 - 1
            IN [Bound |-> Bound, P |-> P,
                T |-> IF T_len > P_len THEN Take(T, P_len) ELSE T]
       ELSE LET Bound == P_len \div 2 - 1
            IN [Bound |-> Bound, T |-> T,
                P |-> IF P_len > T_len THEN Take(P, T_len) ELSE P]

\* Faulty variant of jaro_bounds: the bound is half the longer length, not one less.
jaro_bounds_wide(P, T) ==
    LET P_len == Len(P)
        T_len == Len(T)
    IN IF T_len > P_len
       THEN LET Bound == T_len \div 2
            IN [Bound |-> Bound, P |-> P,
                T |-> IF T_len > P_len + Bound THEN Take(T, P_len + Bound) ELSE T]
       ELSE LET Bound == P_len \div 2
            IN [Bound |-> Bound, T |-> T,
                P |-> IF P_len > T_len + Bound THEN Take(P, T_len + Bound) ELSE P]

\* Faulty variant of jaro_bounds: neither sequence loses its unreachable suffix.
jaro_bounds_untrimmed(P, T) ==
    [Bound |-> jaro_bounds_len(Len(P), Len(T)), P |-> P, T |-> T]

\* jaro_bounds(Range& P, Range& T): the bound, and P and T without the
\* suffixes no window reaches.
jaro_bounds(P, T) ==
    LET P_len == Len(P)
        T_len == Len(T)
    IN IF T_len > P_len
       THEN LET Bound == T_len \div 2 - 1
            IN [Bound |-> Bound, P |-> P,
                T |-> IF T_len > P_len + Bound THEN Take(T, P_len + Bound) ELSE T]
       ELSE LET Bound == P_len \div 2 - 1
            IN [Bound |-> Bound, T |-> T,
                P |-> IF P_len > T_len + Bound THEN Take(P, T_len + Bound) ELSE P]

\* What a call returns (Sim) with the values it computed on the way.
Outcome(Sim, path, CommonChars, Transpositions, b) ==
    [Sim |-> Sim, path |-> path, CommonChars |-> CommonChars,
     Transpositions |-> Transpositions, Bound |-> b.Bound, P |-> b.P, T |-> b.T]

NoBounds == [Bound |-> 0, P |-> <<>>, T |-> <<>>]

\* The part of both jaro_similarity overloads after the bounds and the prefix
\* are settled: PM is the sequence the occurrence index was built from, b the
\* bound and the sequences handed to the flaggers, Prefix the common
\* characters already counted.
SimilarityTail(w, PM, P_len, T_len, b, Prefix, score_cutoff) ==
    IF b.P = <<>> \/ b.T = <<>>
    THEN LET Sim == jaro_calculate_similarity(P_len, T_len, Prefix, 0)
         IN Outcome(IF RatGe(Sim, score_cutoff) THEN Sim ELSE Zero, "none", Prefix, 0, b)
    ELSE IF Len(b.P) <= w /\ Len(b.T) <= w
    THEN LET flagged == flag_similar_characters_word(w, PM, b.T, b.Bound)
             CommonChars == Prefix + count_common_chars_word(flagged)
         IN IF ~jaro_common_char_filter(P_len, T_len, CommonChars, score_cutoff)
            THEN Outcome(Zero, "word", CommonChars, 0, b)
            ELSE LET Transpositions == count_transpositions_word(w, PM, b.T, flagged)
                     Sim == jaro_calculate_similarity(P_len, T_len, CommonChars,
                                                      Transpositions)
                 IN Outcome(IF RatGe(Sim, score_cutoff) THEN Sim ELSE Zero,
                            "word", CommonChars, Transpositions, b)
    ELSE LET flagged == flag_similar_characters_block(w, PM, b.P, b.T, b.Bound)
             FlaggedChars == count_common_chars_block(flagged)
             CommonChars == Prefix + FlaggedChars
         IN IF ~jaro_common_char_filter(P_len, T_len, CommonChars, score_cutoff)
            THEN Outcome(Zero, "block", CommonChars, 0, b)
            ELSE LET Transpositions ==
                         count_transpositions_block(w, PM, b.T, flagged, FlaggedChars)
                     Sim == jaro_calculate_similarity(P_len, T_len, CommonChars,
                                                      Transpositions)
                 IN Outcome(IF RatGe(Sim, score_cutoff) THEN Sim ELSE Zero,
                            "block", CommonChars, Transpositions, b)

\* jaro_similarity(Range P, Range T, double score_cutoff)
jaro_similarity(w, P, T, score_cutoff) ==
    LET P_len == Len(P)
        T_len == Len(T)
    IN IF RatGt(score_cutoff, One) THEN Outcome(Zero, "cutoff", 0, 0, NoBounds)
       ELSE IF P_len = 0 /\ T_len = 0 THEN Outcome(One, "empty", 0, 0, NoBounds)
       ELSE IF ~jaro_length_filter(P_len, T_len, score_cutoff)
       THEN Outcome(Zero, "length", 0, 0, NoBounds)
       ELSE IF P_len = 1 /\ T_len = 1
       THEN Outcome(IF At(P, 0) = At(T, 0) THEN One ELSE Zero, "single", 0, 0, NoBounds)
       ELSE LET b == jaro_bounds(P, T)
                Prefix == CommonPrefixLen(b.P, b.T)
                s == [Bound |-> b.Bound, P |-> Drop(b.P, Prefix), T |-> Drop(b.T, Prefix)]
            IN SimilarityTail(w, s.P, P_len, T_len, s, Prefix, score_cutoff)

\* jaro_similarity(const BlockPatternMatchVector& PM, Range P, Range T,
\* double score_cutoff); the index PM was built by the caller from P.
jaro_similarity_pm(w, P, T, score_cutoff) ==
    LET P_len == Len(P)
        T_len == Len(T)
    IN IF RatGt(score_cutoff, One) THEN Outcome(Zero, "cutoff", 0, 0, NoBounds)
       ELSE IF P_len = 0 /\ T_len = 0 THEN Outcome(One, "empty", 0, 0, NoBounds)
       ELSE IF ~jaro_length_filter(P_len, T_len, score_cutoff)
       THEN Outcome(Zero, "length", 0, 0, NoBounds)
       ELSE IF P_len = 1 /\ T_len = 1
       THEN Outcome(IF At(P, 0) = At(T, 0) THEN One ELSE Zero, "single", 0, 0, NoBounds)
       ELSE SimilarityTail(w, P, P_len, T_len, jaro_bounds(P, T), 0, score_cutoff)

\* ---------------------------------------------------------- batched scorer

\* Unsigned a <= b of two words: they are equal, or the highest bit in which
\* they differ is set in b.
LeqBits(a, b) ==
    a = b \/ LET d == (a \ b) \cup (b \ a)
                 top == CHOOSE x \in d : \A y \in d : y <= x
             IN top \in b

Max2(a, b) == IF a > b THEN a ELSE b

\* The masks bit_mask_lsb may yield for a negative bit count (a shift by a
\* negative amount): no bit, every bit, or the x86 result for a count of -2.
UndefinedMasks(w) == {{}, AllOnes(w), 0..(w - 3)}

\* jaro_similarity_simd for lanes of w bits and vec_width lanes to a vector.
\* s1 holds the patterns the occurrence index `block` was filled with, one per
\* lane (its length a multiple of vec_width, unused lanes empty); the result
\* is the scores array.  ub is the mask bit_mask_lsb yields for a negative
\* count.
jaro_similarity_simd(w, vec_width, s1, s2, score_cutoff, ub) ==
    LET s1_len(r) == Len(s1[r + 1])
        LaneBound(r) == jaro_bounds_len(s1_len(r), Len(s2))
        \* the group-wide trim of s2 for the group starting at lane first
        LastRelevant[i \in 0..vec_width, first \in Nat] ==
            IF i = 0 THEN 0
            ELSE Max2(LastRelevant[i - 1, first],
                      s1_len(first + i - 1) + LaneBound(first + i - 1))
        s2_cur(first) ==
            IF Len(s2) > LastRelevant[vec_width, first]
            THEN Take(s2, LastRelevant[vec_width, first]) ELSE s2
        boundMaskSize(r) ==
            IF 2 * LaneBound(r) < 0 THEN ub ELSE BitMaskLsb(w, 2 * LaneBound(r))
        \* lane r after the first n symbols of the scan of text cur
        Scan[n \in Nat, r \in Nat, first \in Nat] ==
            IF n = 0
            THEN [P_flag |-> {}, T_flag |-> {}, counter |-> {0},
                  boundMask |-> BitMaskLsb(w, LaneBound(r) + 1)]
            ELSE LET s == Scan[n - 1, r, first]
                     X == PMGet(w, s1[r + 1], 0, At(s2_cur(first), n - 1))
                     PM_j == (X \cap s.boundMask) \ s.P_flag
                 IN [P_flag |-> s.P_flag \cup Blsi(PM_j),
                     T_flag |-> s.T_flag \cup (IF PM_j = {} THEN {} ELSE s.counter),
                     counter |-> Shl1(w, s.counter),
                     boundMask |-> Shl1(w, s.boundMask) \cup
                         (IF LeqBits(s.boundMask, boundMaskSize(r)) THEN {0} ELSE {})]
        \* the scalar transposition count of lane i of a group: the index is
        \* read at word i / vecs_per_word of `block`, the word of pattern i
        Transpositions(i, flagged) ==
            count_transpositions_word(w, s1[i + 1], s2, flagged)
        Score(r) ==
            LET first == (r \div vec_width) * vec_width
                i == r % vec_width
                f == Scan[Len(s2_cur(first)), r, first]
                CommonChars == Popcount(f.P_flag)
            IN IF ~jaro_common_char_filter(s1_len(r), Len(s2), CommonChars, score_cutoff)
               THEN Zero
               ELSE LET Sim == jaro_calculate_similarity(s1_len(r), Len(s2), CommonChars,
                                   Transpositions(i, [P_flag |-> f.P_flag,
                                                      T_flag |-> f.T_flag]))
                    IN IF RatGe(Sim, score_cutoff) THEN Sim ELSE Zero
    IN IF RatGt(score_cutoff, One) THEN [k \in 1..Len(s1) |-> Zero]
       ELSE IF s2 = <<>>
       THEN [k \in 1..Len(s1) |-> IF Len(s1[k]) # 0 THEN Zero ELSE One]
       ELSE [k \in 1..Len(s1) |-> Score(k - 1)]

\* ----------------------------------------------------------------- state

VARIABLES
    call,    \* the scalar call: [op, w, P, T, cutoff], op "pending" until made
    ret,     \* what it returned: an Outcome, or Idle
    pc,      \* the stepped flagger: "idle", "word", "block" or "done"
    env,     \* its arguments: [w, PM, P, T, Bound, path]
    j,       \* the text position of its next step
    st,      \* its locals: the flags and the bound mask
    counts,  \* after it: [CommonChars, Transpositions]
    batch,   \* the batched call: [op, w, s1, n, s2, cutoff], op "pending" until made
    scores   \* the scores array it filled, or Idle

vars == <<call, ret, pc, env, j, st, counts, batch, scores>>

Idle == [op |-> "idle"]

callVars == <<call, ret>>
flagVars == <<pc, env, j, st, counts>>
batchVars == <<batch, scores>>

CallIdle == call = Idle /\ ret = Idle
FlagIdle == pc = "idle" /\ env = Idle /\ j = 0 /\ st = Idle /\ counts = Idle

BatchIdle == batch = Idle /\ scores = Idle

\* No call is under way.
Init == CallIdle /\ FlagIdle /\ BatchIdle

\* ------------------------------------------------------- scalar calls

\* The arguments of a scalar call: the word width of the build, the two
\* sequences and the cutoff.
CallInputs ==
    [op : {"pending"}, w : WordWidths, P : Strings(MaxLen), T : Strings(MaxLen),
     cutoff : Cutoffs]

InitCall == call \in CallInputs /\ ret = Idle /\ FlagIdle /\ BatchIdle

\* The caller scores P against T with jaro_similarity(P, T, cutoff).
CallSimilarity ==
    /\ call.op = "pending"
    /\ call' = [call EXCEPT !.op = "similarity"]
    /\ ret' = jaro_similarity(call.w, call.P, call.T, call.cutoff)
    /\ UNCHANGED <<flagVars, batchVars>>

\* The caller scores with the overload taking a precomputed occurrence index.
CallSimilarityPM ==
    /\ call.op = "pending"
    /\ call' = [call EXCEPT !.op = "similarity_pm"]
    /\ ret' = jaro_similarity_pm(call.w, call.P, call.T, call.cutoff)
    /\ UNCHANGED <<flagVars, batchVars>>

Next == CallSimilarity \/ CallSimilarityPM

Spec == InitCall /\ [][Next]_vars

\* ------------------------------------------------- claims on scalar calls

Done == call.op \in {"similarity", "similarity_pm"}

\* The score of either overload, selected by the call's op.
ScalarSim(op, w, P, T, c) ==
    IF op = "similarity" THEN jaro_similarity(w, P, T, c).Sim
    ELSE jaro_similarity_pm(w, P, T, c).Sim

\* C1: for every cutoff c, similarity(A, B, c) is similarity(A, B, 0) when that
\* unthresholded score is >= c, and 0 otherwise: no filter rejects a pair that
\* meets the cutoff, and none lets a pair below it through.
C1_CutoffIsThreshold ==
    Done =>
        LET u == ScalarSim(call.op, call.w, call.P, call.T, Zero)
        IN ret.Sim = IF RatGe(u, call.cutoff) THEN u ELSE Zero

\* A pair with common characters whose score lies below a cutoff in (0, 1].
C1_Witness ==
    /\ Done
    /\ RatGt(call.cutoff, Zero) /\ RatGe(One, call.cutoff)
    /\ ret.path \in {"word", "block"}
    /\ ret.Sim = Zero
    /\ ScalarSim(call.op, call.w, call.P, call.T, Zero) # Zero

\* C2: similarity(A, B) = similarity(B, A), and swapping pattern and text
\* changes neither the common-character count nor the halved transposition
\* count.
C2_Symmetric ==
    (Done /\ call.op = "similarity") =>
        LET swapped == jaro_similarity(call.w, call.T, call.P, call.cutoff)
        IN /\ ret.Sim = swapped.Sim
           /\ ret.CommonChars = swapped.CommonChars
           /\ ret.Transpositions \div 2 = swapped.Transpositions \div 2

\* Sequences of different lengths with transposed common characters.
C2_Witness ==
    /\ Done /\ call.op = "similarity"
    /\ Len(call.P) < Len(call.T)
    /\ ret.Transpositions >= 2
    /\ ret.Sim # Zero

\* C4: for every cutoff in [0, 1], similarity(A, A) = 1 (also for empty A) and
\* similarity(A, empty) = similarity(empty, A) = 0 for non-empty A, for both
\* scalar overloads.
C4_IdentityAndEmpty ==
    (Done /\ RatGe(One, call.cutoff)) =>
        /\ call.P = call.T => ret.Sim = One
        /\ ((call.P = <<>>) # (call.T = <<>>)) => ret.Sim = Zero

\* A sequence scored against itself through the flaggers, at cutoff 1.
C4_Witness ==
    /\ Done /\ call.op = "similarity_pm"
    /\ call.P = call.T /\ Len(call.P) >= 3
    /\ call.cutoff = One
    /\ ret.path = "block"
    /\ ret.Sim = One

\* The scalar computation without the suffix trimming of jaro_bounds: the same
\* Bound, the untrimmed sequences, the original lengths in the score, flagged
\* on a single word wide enough for them.
UntrimmedSimilarity(op, P, T, score_cutoff) ==
    LET P_len == Len(P)
        T_len == Len(T)
    IN IF RatGt(score_cutoff, One) THEN Zero
       ELSE IF P_len = 0 /\ T_len = 0 THEN One
       ELSE IF ~jaro_length_filter(P_len, T_len, score_cutoff) THEN Zero
       ELSE IF P_len = 1 /\ T_len = 1 THEN (IF At(P, 0) = At(T, 0) THEN One ELSE Zero)
       ELSE LET Bound == jaro_bounds_len(P_len, T_len)
                Prefix == IF op = "similarity" THEN CommonPrefixLen(P, T) ELSE 0
                b == [Bound |-> Bound, P |-> Drop(P, Prefix), T |-> Drop(T, Prefix)]
            IN SimilarityTail(WordBits, b.P, P_len, T_len, b, Prefix, score_cutoff).Sim

\* C6: the suffix trimming of jaro_bounds(P, T) never changes the result.
C6_TrimmingKeepsScore ==
    Done => ret.Sim = UntrimmedSimilarity(call.op, call.P, call.T, call.cutoff)

\* A scored pair of which jaro_bounds dropped a suffix.
C6_Witness ==
    /\ Done
    /\ ret.path \in {"word", "block"}
    /\ LET b == jaro_bounds(call.P, call.T)
       IN Len(b.T) < Len(call.T) \/ Len(b.P) < Len(call.P)
    /\ ret.Sim # Zero

AB == <<65, 66>>
BA == <<66, 65>>
IsABvsBA == Done /\ call.op = "similarity" /\ call.P = AB /\ call.T = BA

\* C7 as stated: the unthresholded similarity of "AB" and "BA" is 5/6, and
\* with cutoff 0.9 the result is 0.
C7_AsStated ==
    IsABvsBA =>
        /\ call.cutoff = Zero => ret.Sim = Rat(5, 6)
        /\ call.cutoff = Rat(9, 10) => ret.Sim = Zero

\* C7 amended: the unthresholded similarity of "AB" and "BA" is 0 (the bound is
\* 2/2 - 1 = 0, so the two sequences have no common character), and with
\* cutoff 0.9 the result is 0 as well.
C7_ABvsBA ==
    IsABvsBA =>
        /\ call.cutoff = Zero => (ret.Sim = Zero /\ ret.CommonChars = 0 /\ ret.Bound = 0)
        /\ call.cutoff = Rat(9, 10) => ret.Sim = Zero

\* "AB" scored against "BA" at cutoff 0.9 on the 64-bit word path.
C7_Witness ==
    /\ IsABvsBA
    /\ call.w = WordBits
    /\ call.cutoff = Rat(9, 10)
    /\ ret.path = "word"
    /\ ret.Sim = Zero

\* ---------------------------------------------------- stepped flaggers

\* The arguments jaro_similarity (prefix stripped, index built from the
\* stripped P) or its index overload (index built from the caller's P) hands
\* to a flagger for inputs P0 and T0; Idle when no flagger is called.
FlaggerArgs(w, P0, T0, stripPrefix) ==
    IF P0 = <<>> \/ T0 = <<>> \/ (Len(P0) = 1 /\ Len(T0) = 1) THEN Idle
    ELSE LET b == jaro_bounds(P0, T0)
             Prefix == IF stripPrefix THEN CommonPrefixLen(b.P, b.T) ELSE 0
             P == Drop(b.P, Prefix)
             T == Drop(b.T, Prefix)
         IN IF P = <<>> \/ T = <<>> THEN Idle
            ELSE [w |-> w, PM |-> IF stripPrefix THEN P ELSE P0, P |-> P, T |-> T,
                  Bound |-> b.Bound,
                  path |-> IF Len(P) <= w /\ Len(T) <= w THEN "word" ELSE "block"]

\* jaro_similarity reaches the call of a flagger.
Dispatch ==
    /\ pc = "idle"
    /\ \E w \in WordWidths, P0 \in Strings(MaxFlagLen), T0 \in Strings(MaxFlagLen),
          stripPrefix \in BOOLEAN :
        LET a == FlaggerArgs(w, P0, T0, stripPrefix)
        IN /\ a # Idle
           /\ env' = a
           /\ pc' = a.path
           /\ st' = IF a.path = "word" THEN WordInit(w, a.Bound)
                    ELSE BlockInit(w, a.P, a.T, a.Bound)
    /\ j' = 0
    /\ UNCHANGED <<counts, callVars, batchVars>>

\* One iteration of flag_similar_characters_word.
WordFlagStep ==
    /\ pc = "word"
    /\ j < Len(env.T)
    /\ st' = WordStep(env.w, env.PM, env.T, env.Bound, st, j)
    /\ j' = j + 1
    /\ UNCHANGED <<pc, env, counts, callVars, batchVars>>

\* The word flagger returns; the common characters and transpositions are counted.
WordCount ==
    /\ pc = "word"
    /\ j = Len(env.T)
    /\ LET flagged == [P_flag |-> st.P_flag, T_flag |-> st.T_flag]
       IN counts' = [CommonChars |-> count_common_chars_word(flagged),
                     Transpositions |->
                         count_transpositions_word(env.w, env.PM, env.T, flagged)]
    /\ pc' = "done"
    /\ UNCHANGED <<env, j, st, callVars, batchVars>>

\* One iteration of flag_similar_characters_block.
BlockFlagStep ==
    /\ pc = "block"
    /\ j < Len(env.T)
    /\ st' = BlockStep(env.w, env.PM, env.P, env.T, env.Bound, st, j)
    /\ j' = j + 1
    /\ UNCHANGED <<pc, env, counts, callVars, batchVars>>

\* The block flagger returns; the common characters and transpositions are counted.
BlockCount ==
    /\ pc = "block"
    /\ j = Len(env.T)
    /\ LET FlaggedChars == count_common_chars_block(st.flagged)
       IN counts' = [CommonChars |-> FlaggedChars,
                     Transpositions |->
                         count_transpositions_block(env.w, env.PM, env.T, st.flagged,
                                                    FlaggedChars)]
    /\ pc' = "done"
    /\ UNCHANGED <<env, j, st, callVars, batchVars>>

NextFlag == Dispatch \/ WordFlagStep \/ WordCount \/ BlockFlagStep \/ BlockCount

SpecFlag == Init /\ [][NextFlag]_vars

\* ------------------------------------------- claims on the stepped flaggers

\* The reference positions within Bound of text position jj.
Window(P_len, Bound, jj) == Max2(0, jj - Bound)..Min2(P_len - 1, jj + Bound)

\* The reference greedy scan of the first n symbols of T: each takes the
\* lowest unflagged position of P in its window that holds the same symbol.
ReferenceScan(P, T, Bound, n) ==
    LET scan[k \in 0..n] ==
            IF k = 0 THEN [P_flag |-> {}, T_flag |-> {}]
            ELSE LET s == scan[k - 1]
                     cand == {i \in Window(Len(P), Bound, k - 1) :
                                 i \notin s.P_flag /\ At(P, i) = At(T, k - 1)}
                 IN IF cand = {} THEN s
                    ELSE [P_flag |-> s.P_flag \cup {SetMin(cand)},
                          T_flag |-> s.T_flag \cup {k - 1}]
    IN scan[n]

\* The positions a per-word flag array holds.
Positions(w, flags) == UNION {{w * k + i : i \in flags[k]} : k \in DOMAIN flags}

\* The reference positions a SearchBoundMask admits: the words from
\* empty_words on, the first cut by first_mask and the last by last_mask.
Admitted(w, BoundMask) ==
    LET first == BoundMask.empty_words
        last == BoundMask.empty_words + BoundMask.words - 1
    IN UNION {{w * wd + i :
                  i \in (IF wd = first THEN BoundMask.first_mask ELSE AllOnes(w))
                        \cap (IF wd = last THEN BoundMask.last_mask ELSE AllOnes(w))} :
              wd \in first..last}

\* C5: the block path yields the common-character count and the raw
\* transposition count of the word-path algorithm run on one word wide enough
\* for the input.
C5_BlockMatchesWord ==
    (pc = "done" /\ env.path = "block") =>
        LET flagged == flag_similar_characters_word(WordBits, env.PM, env.T, env.Bound)
        IN /\ counts.CommonChars = count_common_chars_word(flagged)
           /\ counts.Transpositions =
                  count_transpositions_word(WordBits, env.PM, env.T, flagged)

\* A block-path run on a pattern one symbol longer than the word, with
\* transposed common characters in different words.
C5_Witness ==
    /\ pc = "done" /\ env.path = "block"
    /\ Len(env.P) = env.w + 1
    /\ counts.Transpositions >= 2
    /\ \E k \in DOMAIN st.flagged.T_flag : k > 0 /\ st.flagged.T_flag[k] # {}

\* C8: in flag_similar_characters_word the BoundMask of step j holds, among
\* the positions the occurrence index has, exactly those of [j-Bound, j+Bound]
\* within P, and the flags after j steps are those of the reference greedy scan.
C8_WordWindowAndGreedy ==
    pc = "word" =>
        /\ j < Len(env.T) =>
               st.BoundMask \cap 0..(Len(env.PM) - 1) = Window(Len(env.P), env.Bound, j)
        /\ [P_flag |-> st.P_flag, T_flag |-> st.T_flag]
               = ReferenceScan(env.P, env.T, env.Bound, j)

\* A word-path run with Bound = 0 that has flagged a match past position 0.
C8_Witness ==
    /\ pc = "word" /\ env.w = WordBits
    /\ env.Bound = 0
    /\ j >= 2 /\ j < Len(env.T)
    /\ (j - 1) \in st.T_flag

\* C9: at the start of the step of every text position j the SearchBoundMask
\* admits exactly the reference positions max(0, j-Bound)..min(P_len-1, j+Bound).
C9_BoundMaskIsWindow ==
    (pc = "block" /\ j < Len(env.T)) =>
        Admitted(env.w, st.BoundMask) = Window(Len(env.P), env.Bound, j)

\* A block-path step whose window has left the first word and spans two.
C9_Witness ==
    /\ pc = "block" /\ j < Len(env.T)
    /\ st.BoundMask.empty_words >= 1
    /\ st.BoundMask.words >= 2
    /\ st.BoundMask.last_mask # {}

PFlagBits == IF pc = "word" THEN st.P_flag ELSE Positions(env.w, st.flagged.P_flag)
TFlagBits == IF pc = "word" THEN st.T_flag ELSE Positions(env.w, st.flagged.T_flag)

FlagCountsAgree ==
    /\ pc \in {"word", "block"} => Cardinality(PFlagBits) = Cardinality(TFlagBits)
    /\ (pc = "done" /\ env.path = "block") =>
           /\ counts.CommonChars =
                  SumPopcount(st.flagged.P_flag, FlagSize(st.flagged.P_flag))
           /\ counts.CommonChars =
                  SumPopcount(st.flagged.T_flag, FlagSize(st.flagged.T_flag))
    /\ (pc = "done" /\ env.path = "word") =>
           /\ counts.CommonChars = Popcount(st.P_flag)
           /\ counts.CommonChars = Popcount(st.T_flag)

FlagStepAddsOnePair ==
    (pc \in {"word", "block"} /\ j' = j + 1) =>
        \/ PFlagBits' = PFlagBits /\ TFlagBits' = TFlagBits
        \/ \E i \in PFlagBits' \ PFlagBits :
               /\ PFlagBits' = PFlagBits \cup {i}
               /\ j \notin TFlagBits
               /\ TFlagBits' = TFlagBits \cup {j}

\* C10: after every step of either flagger P_flag and T_flag hold the same
\* number of bits, a step adds one new bit to both or none to either, and
\* count_common_chars returns the number held by either array.
C10_FlagCountsAgree == []FlagCountsAgree /\ [][FlagStepAddsOnePair]_vars

\* A block-path run that has flagged pairs in two different words of P_flag.
C10_Witness ==
    /\ pc = "block" /\ j = Len(env.T)
    /\ FlagSize(st.flagged.P_flag) < FlagSize(st.flagged.T_flag)
    /\ \E a, b \in DOMAIN st.flagged.P_flag :
           a # b /\ st.flagged.P_flag[a] # {} /\ st.flagged.P_flag[b] # {}

\* ------------------------------------------- dispatch on long sequences

\* Longest input sequence of a dispatch, and longest prefix its two
\* sequences are built to share.
MaxDispatchLen == 66
MaxPrefix == 2

\* A pattern of p symbols 'A', and a text of t symbols that shares exactly its
\* first k with such a pattern: between them they give every pair of lengths
\* and every length of common prefix up to MaxPrefix.
LongP(p) == [i \in 1..p |-> 65]
LongT(t, k) == [i \in 1..t |-> IF i <= k THEN 65 ELSE 66]

\* What jaro_similarity (stripPrefix) or its index overload hands to a flagger
\* for inputs P0, T0 and a cutoff; Idle when it returns before calling one.
DispatchArgs(w, P0, T0, score_cutoff, stripPrefix) ==
    IF RatGt(score_cutoff, One) THEN Idle
    ELSE IF Len(P0) = 0 /\ Len(T0) = 0 THEN Idle
    ELSE IF ~jaro_length_filter(Len(P0), Len(T0), score_cutoff) THEN Idle
    ELSE FlaggerArgs(w, P0, T0, stripPrefix)

\* jaro_similarity(P, T, cutoff) of the 64-bit build reaches the call of a flagger.
DispatchSimilarity ==
    /\ pc = "idle"
    /\ \E p \in 0..MaxDispatchLen, t \in 0..MaxDispatchLen, c \in Cutoffs :
          \E k \in 0..Min2(t, MaxPrefix) :
            LET a == DispatchArgs(WordBits, LongP(p), LongT(t, k), c, TRUE)
            IN /\ a # Idle
               /\ env' = a
               /\ pc' = a.path
    /\ UNCHANGED <<j, st, counts, callVars, batchVars>>

\* The overload taking an occurrence index reaches the call of a flagger.
DispatchSimilarityPM ==
    /\ pc = "idle"
    /\ \E p \in 0..MaxDispatchLen, t \in 0..MaxDispatchLen, c \in Cutoffs :
          \E k \in 0..Min2(t, MaxPrefix) :
            LET a == DispatchArgs(WordBits, LongP(p), LongT(t, k), c, FALSE)
            IN /\ a # Idle
               /\ env' = a
               /\ pc' = a.path
    /\ UNCHANGED <<j, st, counts, callVars, batchVars>>

NextDispatch == DispatchSimilarity \/ DispatchSimilarityPM

SpecDispatch == Init /\ [][NextDispatch]_vars

\* ------------------------------------------------ claims on the dispatch

\* The least Bound flag_similar_characters_block asserts: 31 for 64-bit words.
BlockBoundFloor(w) == w \div 2 - 1

\* The assertions at the head of flag_similar_characters_word.
WordAsserts(w, P, T, Bound) ==
    /\ Len(P) <= w
    /\ Len(T) <= w
    /\ (Bound > Len(P) \/ Len(P) - Bound <= Len(T))

\* The assertions at the head of flag_similar_characters_block.
BlockAsserts(w, P, T, Bound) ==
    /\ (Len(P) > w \/ Len(T) > w)
    /\ (Bound > Len(P) \/ Len(P) - Bound <= Len(T))
    /\ Bound >= BlockBoundFloor(w)

\* C11: whenever either jaro_similarity overload calls a flagger, for every
\* input pair and cutoff, the flagger's asserted preconditions hold on the
\* trimmed and prefix-stripped sequences: on the word path both sizes are at
\* most 64 and (Bound > P.size() or P.size() - Bound <= T.size()); on the block
\* path one size exceeds 64, Bound >= 31 and the same window condition holds.
C11_FlaggerPreconditions ==
    /\ pc = "word" => WordAsserts(env.w, env.P, env.T, env.Bound)
    /\ pc = "block" => BlockAsserts(env.w, env.P, env.T, env.Bound)
    /\ (pc = "block" /\ env.w = WordBits) => env.Bound >= 31

\* The 64-bit block flagger is called on two sequences of 65 symbols that are
\* left of 66 after the common prefix was stripped.
C11_Witness ==
    /\ pc = "block"
    /\ env.w = WordBits
    /\ env.Bound = 32
    /\ Len(env.P) = 65 /\ Len(env.T) = 65
    /\ env.PM = env.P

\* ------------------------------------------------------- batched calls

\* Lists of 1..n patterns, each of at most MaxPatLen symbols and of one lane.
PatternLists(w, n) ==
    UNION {[1..k -> Strings(Min2(w, MaxPatLen))] : k \in 1..n}

\* The list padded with empty patterns to whole vectors, as the index is.
Padded(patterns) ==
    [k \in 1..(CeilDiv(Len(patterns), VecWidth) * VecWidth) |->
        IF k <= Len(patterns) THEN patterns[k] ELSE <<>>]

\* A batched call is about to be made: its arguments are the lane width, the
\* patterns s1 (n of them the caller's), the text s2 and the cutoff.
InitSimd ==
    /\ \E w \in WordWidths, s2 \in Strings(MaxTextLen), c \in Cutoffs :
       \E patterns \in PatternLists(w, MaxPatterns) :
           batch = [op |-> "pending", w |-> w, s1 |-> Padded(patterns),
                    n |-> Len(patterns), s2 |-> s2, cutoff |-> c]
    /\ scores = Idle
    /\ CallIdle /\ FlagIdle

\* The caller scores the text s2 against the patterns in one batch.
CallSimd ==
    /\ batch.op = "pending"
    /\ \E ub \in UndefinedMasks(batch.w) :
        scores' = jaro_similarity_simd(batch.w, VecWidth, batch.s1, batch.s2,
                                       batch.cutoff, ub)
    /\ batch' = [batch EXCEPT !.op = "simd"]
    /\ UNCHANGED <<callVars, flagVars>>

NextSimd == CallSimd

SpecSimd == InitSimd /\ [][NextSimd]_vars

\* ------------------------------------------------ claims on batched calls

\* C3: the batched scorer writes for every pattern index k the value the
\* scalar jaro_similarity(pattern_k, T, cutoff) returns.
C3_BatchedMatchesScalar ==
    batch.op = "simd" =>
        \A k \in 1..batch.n :
            scores[k] = jaro_similarity_pm(batch.w, batch.s1[k], batch.s2, batch.cutoff).Sim

=============================================================================
